---- MODULE Spec2Model ----
(***************************************************************************)
(* Model of scripts/manager.py: the interactive Traefik provisioning       *)
(* script.  A host runs the script several times in sequence; every run    *)
(* that deploys the test page leaves a detached teardown process behind    *)
(* (sleep 600; compose down; rm -f manifest) that runs concurrently with   *)
(* later runs and with the operator's manual teardown command.             *)
(***************************************************************************)
EXTENDS Integers, Sequences, FiniteSets, TLC

\* ------------------------------------------------------------------ bounds

\* Number of runs of the script on the host.
MaxRuns == 2

\* Number of times the operator runs the manual teardown command.
MaxManual == 1

\* ------------------------------------------------------- program constants

\* sleep 600 in the removal script.
TTL == 600

\* Granularity of the model's clock: half a TTL.
TickLen == TTL \div 2

Runs == 1..MaxRuns

\* ------------------------------------------------------------ name strings

Traefik == <<"t","r","a","e","f","i","k">>

Bridge == <<"b","r","i","d","g","e">>

TraefikDefault == Traefik \o <<"_","d","e","f","a","u","l","t">>

\* Networks that may exist, beside Docker's own `bridge`, on the host before
\* the script is ever run.
NetworkPool == {Traefik, TraefikDefault}

\* ------------------------------------------------------------ pure helpers

\* run_command: True when the process exits 0, False on CalledProcessError.
RunCommand(outcome) == outcome = "ok"

\* subprocess.run raises FileNotFoundError for a missing binary; run_command
\* catches CalledProcessError only, so the exception leaves main.
Raises(outcome) == outcome = "missing"

\* str.strip() on the inputs the model feeds to input().
Strip(s) == CASE s = "  " -> ""
              [] s = " yes " -> "yes"
              [] OTHER -> s

\* str.lower() on the inputs the model feeds to input().
Lower(s) == CASE s = "YES" -> "yes"
              [] s = "Y" -> "y"
              [] OTHER -> s

\* confirm not in ['y', 'yes'] cancels the run.
Confirmed(raw) == Lower(Strip(raw)) \in {"y", "yes"}

\* `if not test_domain: return` / `if test_domain:`.
TestDomainGiven_Always(d) == TRUE

TestDomainGiven(d) == d # ""

\* email or "admin@example.com"
AcmeEmail(e) == IF e = "" THEN "admin@example.com" ELSE e

RECURSIVE LsStdout(_)
\* docker network ls --format {{.Name}}: one name per line.
LsStdout(nets) ==
    IF nets = {} THEN <<>>
    ELSE LET n == CHOOSE x \in nets : TRUE
         IN  n \o <<"\n">> \o LsStdout(nets \ {n})

\* Python's `needle in haystack` on strings: substring search.
Contains(hay, needle) ==
    \E i \in 1..(Len(hay) - Len(needle) + 1) :
        SubSeq(hay, i, i + Len(needle) - 1) = needle

\* if "traefik" not in result.stdout
NetworkAbsent(stdout) == ~Contains(stdout, Traefik)

\* check_docker / check_docker_compose: a failed probe ends in sys.exit(1).
ProbeFatal_Never(ok) == FALSE

ProbeFatal(ok) == ~ok

\* deploy_traefik returns normally whatever `up -d` answered.
DeployTraefikReturns_OnSuccess(upOk) == upOk

DeployTraefikReturns(upOk) == TRUE

\* deploy_test_page schedules the removal only inside `if run_command(up)`.
SchedulesRemoval_Always(upOk) == TRUE

SchedulesRemoval(upOk) == upOk

\* The removal script has no `set -e`: rm -f runs whatever `down` answered.
RmRuns_OnSuccess(downOk) == downOk

RmRuns(downOk) == TRUE

\* ------------------------------------------------------------------- state

VARIABLES
    runLimit,      \* how many times the operator runs the script
    pc,            \* per run: the function main is about to call
    exitCode,      \* per run: process exit status, -1 while running
    email,         \* per run: main's local `email`
    test_domain,   \* per run: main's local `test_domain`
    compose_cmd,   \* per run: main's local `compose_cmd`
    did,           \* per run: the mutations the run has performed
    envCheck,      \* per run: "none", or whether its environment checks passed
    netCmd,        \* per run: what setup_docker_network did about the network
    trUp,          \* per run: result of deploy_traefik's `up -d`
    tpUp,          \* per run: result of deploy_test_page's `up -d`
    scheduled,     \* per run: teardown processes launched by the run
    dirs,          \* /opt/traefik, /etc/traefik, /etc/traefik/certs exist
    traefikYml,    \* /etc/traefik/traefik.yml: "absent" or its acme email
    composeYml,    \* /opt/traefik/docker-compose.yml exists
    testManifest,  \* /opt/traefik/docker-compose-test.yml: "absent" or its Host
    envFile,       \* /opt/traefik/.env: "absent" or TEST_DOMAIN's value
    script,        \* /tmp/remove_test_page.sh exists
    networks,      \* names of the Docker networks on the host
    traefikRunning,\* the traefik container is up
    pageRunning,   \* the traefik-test-page container is up
    pageAge,       \* seconds since the last successful `up -d` of the page
    tdpc,          \* per run: position of its detached removal script
    remaining,     \* per run: seconds left of the script's sleep 600
    tdDown,        \* per run: what the script's `down` did
    downCalls,     \* per run: `down` invocations made by its removal script
    tdExit,        \* per run: exit status of the removal script, -1 before
    autoAge,       \* page age at the last removal by a removal script, -1 if none
    manualCount,   \* manual teardown commands the operator has run
    manualRemoved  \* a manual `down` has removed the test page

\* main's position and locals.
procVars == <<pc, exitCode, email, compose_cmd>>

\* What a run was asked to do and has done.
runVars == <<test_domain, did, envCheck, netCmd, trUp, tpUp, scheduled>>

fileVars == <<dirs, traefikYml, composeYml, testManifest, envFile, script>>

dockerVars == <<networks, traefikRunning, pageRunning, pageAge>>

tdVars == <<tdpc, remaining, tdDown, downCalls, tdExit, autoAge>>

manualVars == <<manualCount, manualRemoved>>

vars == <<runLimit, procVars, runVars, fileVars, dockerVars, tdVars,
          manualVars>>

\* The state of a host on which the script has never run.
InitHost ==
    /\ pc = [r \in Runs |-> "idle"]
    /\ exitCode = [r \in Runs |-> -1]
    /\ email = [r \in Runs |-> ""]
    /\ test_domain = [r \in Runs |-> ""]
    /\ compose_cmd = [r \in Runs |-> ""]
    /\ did = [r \in Runs |-> {}]
    /\ envCheck = [r \in Runs |-> "none"]
    /\ netCmd = [r \in Runs |-> "none"]
    /\ trUp = [r \in Runs |-> "none"]
    /\ tpUp = [r \in Runs |-> "none"]
    /\ scheduled = [r \in Runs |-> 0]
    /\ dirs = FALSE
    /\ traefikYml = "absent"
    /\ composeYml = FALSE
    /\ testManifest = "absent"
    /\ envFile = "absent"
    /\ script = FALSE
    /\ networks \in {{Bridge} \cup given : given \in SUBSET NetworkPool}
    /\ traefikRunning = FALSE
    /\ pageRunning = FALSE
    /\ pageAge = 0
    /\ tdpc = [r \in Runs |-> "none"]
    /\ remaining = [r \in Runs |-> 0]
    /\ tdDown = [r \in Runs |-> "none"]
    /\ downCalls = [r \in Runs |-> 0]
    /\ tdExit = [r \in Runs |-> -1]
    /\ autoAge = -1
    /\ manualCount = 0
    /\ manualRemoved = FALSE

Init == InitHost /\ runLimit = MaxRuns

\* The same host when the operator runs the script once.
InitOne == InitHost /\ runLimit = 1

Finished(r) == pc[r] \in {"done", "env_abort", "crashed", "cancelled"}

\* ------------------------------------------------------------ main, by call

\* sys.exit(code), an uncaught exception or the return of main: the process
\* ends and its locals email and compose_cmd are gone (test_domain is kept
\* as the record of what the run was asked to do).
Exit(r, code, how) ==
    /\ pc' = [pc EXCEPT ![r] = how]
    /\ exitCode' = [exitCode EXCEPT ![r] = code]
    /\ email' = [email EXCEPT ![r] = ""]
    /\ compose_cmd' = [compose_cmd EXCEPT ![r] = ""]

\* main goes on to its next call, with `cmd` and `mail` as its locals.
GotoWith(r, where, cmd, mail) ==
    /\ pc' = [pc EXCEPT ![r] = where]
    /\ compose_cmd' = [compose_cmd EXCEPT ![r] = cmd]
    /\ email' = [email EXCEPT ![r] = mail]
    /\ UNCHANGED exitCode

Goto(r, where) == GotoWith(r, where, compose_cmd[r], email[r])

\* The run has performed the mutations `what`.
Did(r, what) == did' = [did EXCEPT ![r] = @ \cup what]

\* The operator starts the script; runs follow one another.
Start(r) ==
    /\ pc[r] = "idle"
    /\ r <= runLimit
    /\ \A q \in Runs : q < r => Finished(q)
    /\ Goto(r, "check_docker")
    /\ UNCHANGED <<runLimit, runVars, fileVars, dockerVars, tdVars, manualVars>>

CheckDocker(r) ==
    /\ pc[r] = "check_docker"
    /\ \E version \in {"ok", "fail", "missing"}, info \in {"ok", "fail"} :
          /\ envCheck' = [envCheck EXCEPT ![r] =
                            IF RunCommand(version) /\ RunCommand(info)
                            THEN "passed" ELSE "failed"]
          /\ IF Raises(version) THEN Exit(r, 1, "env_abort")
             ELSE IF ProbeFatal(RunCommand(version)) THEN Exit(r, 1, "env_abort")
             ELSE IF ProbeFatal(RunCommand(info)) THEN Exit(r, 1, "env_abort")
             ELSE Goto(r, "check_docker_compose")
    /\ UNCHANGED <<runLimit, test_domain, did, netCmd, trUp, tpUp, scheduled,
                   fileVars, dockerVars, tdVars, manualVars>>

CheckDockerCompose(r) ==
    /\ pc[r] = "check_docker_compose"
    /\ \E plugin \in {"ok", "fail"}, legacy \in {"ok", "fail", "missing"} :
          /\ envCheck' = [envCheck EXCEPT ![r] =
                            IF RunCommand(plugin) \/ RunCommand(legacy)
                            THEN @ ELSE "failed"]
          /\ IF RunCommand(plugin)
             THEN GotoWith(r, "get_user_input", "docker compose", email[r])
             ELSE IF Raises(legacy) THEN Exit(r, 1, "env_abort")
             ELSE IF RunCommand(legacy)
             THEN GotoWith(r, "get_user_input", "docker-compose", email[r])
             ELSE IF ProbeFatal(FALSE) THEN Exit(r, 1, "env_abort")
             ELSE Goto(r, "get_user_input")
    /\ UNCHANGED <<runLimit, test_domain, did, netCmd, trUp, tpUp, scheduled,
                   fileVars, dockerVars, tdVars, manualVars>>

GetUserInput(r) ==
    /\ pc[r] = "get_user_input"
    /\ \E e \in {"", "ops@example.com"},
          d \in {"", "  ", "test.example.com"},
          c \in {"y", " yes ", "YES", "n", ""} :
          /\ test_domain' = [test_domain EXCEPT ![r] = Strip(d)]
          /\ IF Strip(d) # "" /\ ~Confirmed(c)
             THEN Exit(r, 0, "cancelled")
             ELSE GotoWith(r, "create_directories", compose_cmd[r], Strip(e))
    /\ UNCHANGED <<runLimit, did, envCheck, netCmd, trUp, tpUp, scheduled,
                   fileVars, dockerVars, tdVars, manualVars>>

\* Path.mkdir(parents=True, exist_ok=True) raises PermissionError when the
\* directories are missing and the operator may not create them.
CreateDirectories(r) ==
    /\ pc[r] = "create_directories"
    /\ \E writable \in BOOLEAN :
          IF writable \/ dirs
          THEN /\ dirs' = TRUE
               /\ Did(r, {"dirs"})
               /\ Goto(r, "create_traefik_config")
          ELSE /\ Exit(r, 1, "crashed")
               /\ UNCHANGED <<dirs, did>>
    /\ UNCHANGED <<runLimit, test_domain, envCheck, netCmd, trUp, tpUp,
                   scheduled, traefikYml, composeYml, testManifest, envFile,
                   script, dockerVars, tdVars, manualVars>>

CreateTraefikConfig(r) ==
    /\ pc[r] = "create_traefik_config"
    /\ traefikYml' = AcmeEmail(email[r])
    /\ Did(r, {"traefik.yml"})
    /\ Goto(r, "create_traefik_compose")
    /\ UNCHANGED <<runLimit, test_domain, envCheck, netCmd, trUp, tpUp,
                   scheduled, dirs, composeYml, testManifest, envFile,
                   script, dockerVars, tdVars, manualVars>>

CreateTraefikCompose(r) ==
    /\ pc[r] = "create_traefik_compose"
    /\ composeYml' = TRUE
    /\ Did(r, {"docker-compose.yml"})
    /\ Goto(r, "create_test_compose")
    /\ UNCHANGED <<runLimit, test_domain, envCheck, netCmd, trUp, tpUp,
                   scheduled, dirs, traefikYml, testManifest, envFile,
                   script, dockerVars, tdVars, manualVars>>

CreateTestCompose(r) ==
    /\ pc[r] = "create_test_compose"
    /\ IF TestDomainGiven(test_domain[r])
       THEN /\ testManifest' = test_domain[r]
            /\ Did(r, {"docker-compose-test.yml"})
       ELSE UNCHANGED <<testManifest, did>>
    /\ Goto(r, "create_env_file")
    /\ UNCHANGED <<runLimit, test_domain, envCheck, netCmd, trUp, tpUp,
                   scheduled, dirs, traefikYml, composeYml, envFile,
                   script, dockerVars, tdVars, manualVars>>

CreateEnvFile(r) ==
    /\ pc[r] = "create_env_file"
    /\ IF TestDomainGiven(test_domain[r])
       THEN /\ envFile' = test_domain[r]
            /\ Did(r, {".env"})
       ELSE UNCHANGED <<envFile, did>>
    /\ Goto(r, "setup_docker_network")
    /\ UNCHANGED <<runLimit, test_domain, envCheck, netCmd, trUp, tpUp,
                   scheduled, dirs, traefikYml, composeYml, testManifest,
                   script, dockerVars, tdVars, manualVars>>

\* `docker network create traefik`: fails without the daemon and when a
\* network of that name exists.
CreateOutcome(daemonOk) ==
    IF daemonOk /\ Traefik \notin networks THEN "ok" ELSE "fail"

SetupDockerNetwork(r) ==
    /\ pc[r] = "setup_docker_network"
    /\ \E lsOk \in BOOLEAN, daemonOk \in BOOLEAN :
          LET stdout == IF lsOk THEN LsStdout(networks) ELSE <<>>
              create == CreateOutcome(daemonOk)
          IN  IF NetworkAbsent(stdout)
              THEN /\ netCmd' = [netCmd EXCEPT ![r] = create]
                   /\ IF RunCommand(create)
                      THEN /\ networks' = networks \cup {Traefik}
                           /\ Did(r, {"network"})
                      ELSE UNCHANGED <<networks, did>>
              ELSE /\ netCmd' = [netCmd EXCEPT ![r] = "skipped"]
                   /\ UNCHANGED <<networks, did>>
    /\ Goto(r, "deploy_traefik")
    /\ UNCHANGED <<runLimit, test_domain, envCheck, trUp, tpUp, scheduled,
                   fileVars, traefikRunning, pageRunning, pageAge, tdVars,
                   manualVars>>

\* `docker compose up -d` needs the daemon, the manifest and the external
\* network `traefik` the manifest names.
UpOutcome(daemonOk, manifestThere) ==
    IF daemonOk /\ manifestThere /\ Traefik \in networks THEN "ok" ELSE "fail"

DeployTraefik(r) ==
    /\ pc[r] = "deploy_traefik"
    /\ \E daemonOk \in BOOLEAN :
          LET up == UpOutcome(daemonOk, composeYml)
          IN  /\ trUp' = [trUp EXCEPT ![r] = up]
              /\ traefikRunning' = (traefikRunning \/ RunCommand(up))
              /\ IF DeployTraefikReturns(RunCommand(up))
                 THEN Goto(r, "deploy_test_page")
                 ELSE Exit(r, 1, "crashed")
    /\ Did(r, {"pull", "up"})
    /\ UNCHANGED <<runLimit, test_domain, envCheck, netCmd, tpUp, scheduled,
                   fileVars, networks, pageRunning, pageAge, tdVars,
                   manualVars>>

\* A removal script that is written but never launched.
ScheduleRemoval_NoLaunch(r) ==
    /\ script' = TRUE
    /\ Did(r, {"test_up", "script"})
    /\ UNCHANGED <<tdpc, remaining, scheduled>>

\* A removal script that is launched twice.
ScheduleRemoval_Twice(r) ==
    /\ script' = TRUE
    /\ tdpc' = [tdpc EXCEPT ![r] = "sleep"]
    /\ remaining' = [remaining EXCEPT ![r] = TTL]
    /\ scheduled' = [scheduled EXCEPT ![r] = @ + 2]
    /\ Did(r, {"test_up", "script", "teardown"})

\* The success branch of deploy_test_page: write the removal script, chmod it
\* and launch it detached; the script starts in its sleep 600.
ScheduleRemoval(r) ==
    /\ script' = TRUE
    /\ tdpc' = [tdpc EXCEPT ![r] = "sleep"]
    /\ remaining' = [remaining EXCEPT ![r] = TTL]
    /\ scheduled' = [scheduled EXCEPT ![r] = @ + 1]
    /\ Did(r, {"test_up", "script", "teardown"})

DeployTestPage(r) ==
    /\ pc[r] = "deploy_test_page"
    /\ IF ~TestDomainGiven(test_domain[r])
       THEN UNCHANGED <<tpUp, pageRunning, pageAge, script, tdpc, remaining,
                        scheduled, did>>
       ELSE \E daemonOk \in BOOLEAN :
               LET up == UpOutcome(daemonOk, testManifest # "absent")
               IN  /\ tpUp' = [tpUp EXCEPT ![r] = up]
                   /\ pageRunning' = (pageRunning \/ RunCommand(up))
                   /\ pageAge' = IF RunCommand(up) THEN 0 ELSE pageAge
                   /\ IF SchedulesRemoval(RunCommand(up))
                      THEN ScheduleRemoval(r)
                      ELSE /\ Did(r, {"test_up"})
                           /\ UNCHANGED <<script, tdpc, remaining, scheduled>>
    /\ Goto(r, "display_final_info")
    /\ UNCHANGED <<runLimit, test_domain, envCheck, netCmd, trUp, dirs,
                   traefikYml, composeYml, testManifest, envFile, networks,
                   traefikRunning, tdDown, downCalls, tdExit, autoAge,
                   manualVars>>

\* display_final_info prints only; main returns and the process exits 0.
DisplayFinalInfo(r) ==
    /\ pc[r] = "display_final_info"
    /\ Exit(r, 0, "done")
    /\ UNCHANGED <<runLimit, runVars, fileVars, dockerVars, tdVars, manualVars>>

\* --------------------------------------------- the detached removal script

\* `compose -f <manifest> down`: fails without the manifest file or the
\* daemon; with nothing running it removes nothing and exits 0.
DownOutcome(daemonOk) ==
    IF testManifest = "absent" THEN "fail_nofile"
    ELSE IF ~daemonOk THEN "fail_daemon"
    ELSE IF pageRunning THEN "ok_removed"
    ELSE "ok_noop"

DownOk(outcome) == outcome \in {"ok_removed", "ok_noop"}

\* A removal script whose rm line comes before its down line.
TdWake_RmFirst(r) ==
    /\ tdpc[r] = "sleep"
    /\ remaining[r] = 0
    /\ tdpc' = [tdpc EXCEPT ![r] = "down"]
    /\ testManifest' = "absent"
    /\ UNCHANGED <<runLimit, procVars, runVars, dirs, traefikYml, composeYml,
                   envFile, script, dockerVars, remaining, tdDown, downCalls,
                   tdExit, autoAge, manualVars>>

\* sleep 600 has elapsed; the two echo lines follow.
TdWake(r) ==
    /\ tdpc[r] = "sleep"
    /\ remaining[r] = 0
    /\ tdpc' = [tdpc EXCEPT ![r] = "down"]
    /\ UNCHANGED <<runLimit, procVars, runVars, fileVars, dockerVars,
                   remaining, tdDown, downCalls, tdExit, autoAge, manualVars>>

\* {compose_cmd} -f /opt/traefik/docker-compose-test.yml down
TdDown(r) ==
    /\ tdpc[r] = "down"
    /\ \E daemonOk \in BOOLEAN :
          LET out == DownOutcome(daemonOk)
          IN  /\ tdDown' = [tdDown EXCEPT ![r] = out]
              /\ pageRunning' = (pageRunning /\ out # "ok_removed")
              /\ autoAge' = IF out = "ok_removed" THEN pageAge ELSE autoAge
              /\ IF RmRuns(DownOk(out))
                 THEN /\ tdpc' = [tdpc EXCEPT ![r] = "rm"]
                      /\ UNCHANGED tdExit
                 ELSE /\ tdpc' = [tdpc EXCEPT ![r] = "done"]
                      /\ tdExit' = [tdExit EXCEPT ![r] = 1]
    /\ downCalls' = [downCalls EXCEPT ![r] = @ + 1]
    /\ UNCHANGED <<runLimit, procVars, runVars, fileVars, networks,
                   traefikRunning, pageAge, remaining, manualVars>>

\* rm -f /opt/traefik/docker-compose-test.yml, the last echo, exit 0.
TdRm(r) ==
    /\ tdpc[r] = "rm"
    /\ testManifest' = "absent"
    /\ tdpc' = [tdpc EXCEPT ![r] = "done"]
    /\ tdExit' = [tdExit EXCEPT ![r] = 0]
    /\ UNCHANGED <<runLimit, procVars, runVars, dirs, traefikYml, composeYml,
                   envFile, script, dockerVars, remaining, tdDown, downCalls,
                   autoAge, manualVars>>

\* ------------------------------------------------------------ environment

\* The operator runs the command display_final_info printed:
\* cd /opt/traefik && docker-compose -f docker-compose-test.yml down
ManualDown ==
    /\ manualCount < MaxManual
    /\ \E r \in Runs : pc[r] = "done" /\ TestDomainGiven(test_domain[r])
    /\ \E daemonOk \in BOOLEAN :
          LET out == DownOutcome(daemonOk)
          IN  /\ manualRemoved' = (manualRemoved \/ out = "ok_removed")
              /\ pageRunning' = (pageRunning /\ out # "ok_removed")
    /\ manualCount' = manualCount + 1
    /\ UNCHANGED <<runLimit, procVars, runVars, fileVars, networks,
                   traefikRunning, pageAge, tdVars>>

Min(a, b) == IF a < b THEN a ELSE b

Max(a, b) == IF a > b THEN a ELSE b

\* TickLen seconds pass for every sleeping script and for the running page.
Tick ==
    /\ \/ \E r \in Runs : tdpc[r] = "sleep" /\ remaining[r] > 0
       \/ pageRunning /\ pageAge < TTL
    /\ remaining' = [r \in Runs |->
                        IF tdpc[r] = "sleep"
                        THEN Max(0, remaining[r] - TickLen)
                        ELSE remaining[r]]
    /\ pageAge' = IF pageRunning THEN Min(TTL, pageAge + TickLen) ELSE pageAge
    /\ UNCHANGED <<runLimit, procVars, runVars, fileVars, networks,
                   traefikRunning, pageRunning, tdpc, tdDown, downCalls,
                   tdExit, autoAge, manualVars>>

\* ------------------------------------------------------------ specification

MainStep(r) ==
    \/ Start(r)
    \/ CheckDocker(r)
    \/ CheckDockerCompose(r)
    \/ GetUserInput(r)
    \/ CreateDirectories(r)
    \/ CreateTraefikConfig(r)
    \/ CreateTraefikCompose(r)
    \/ CreateTestCompose(r)
    \/ CreateEnvFile(r)
    \/ SetupDockerNetwork(r)
    \/ DeployTraefik(r)
    \/ DeployTestPage(r)
    \/ DisplayFinalInfo(r)

TdStep(r) == TdWake(r) \/ TdDown(r) \/ TdRm(r)

Next ==
    \/ \E r \in Runs : MainStep(r)
    \/ \E r \in Runs : TdStep(r)
    \/ ManualDown
    \/ Tick

Spec == Init /\ [][Next]_vars

\* One run of the script, its removal script and the operator.
SpecOne == InitOne /\ [][Next]_vars

\* The removal scripts are scheduled fairly and time passes.
Fairness ==
    /\ WF_vars(Tick)
    /\ \A r \in Runs : WF_vars(TdStep(r))

FairSpec == Spec /\ Fairness

\* ------------------------------------------------------------------ claims

\* The run's process has got past get_user_input without being cancelled.
InputTaken(r) ==
    pc[r] \notin {"idle", "check_docker", "check_docker_compose",
                  "get_user_input", "env_abort", "cancelled"}

\* The removal script of run r is waiting or working.
Pending(r) == tdpc[r] \in {"sleep", "down", "rm"}

\* Run r has just started the test page and launched its removal script.
JustDeployed(r) == pc[r] = "display_final_info" /\ tpUp[r] = "ok"

\* C1 as stated: whenever deploy_test_page has started the test page, the
\* page is eventually down and the test manifest is eventually deleted.
C1_Original ==
    \A r \in Runs :
        /\ JustDeployed(r) ~> ~pageRunning
        /\ JustDeployed(r) ~> (testManifest = "absent")

\* C1 amended: whenever deploy_test_page has started the test page, the
\* run's removal script eventually invokes compose down exactly once and ends
\* with exit status 0, and the test manifest is eventually deleted; the page
\* is down right after that down call if the call succeeded.
C1_Amended ==
    /\ \A r \in Runs :
          /\ JustDeployed(r) ~> (tdpc[r] = "done" /\ downCalls[r] = 1
                                    /\ tdExit[r] = 0)
          /\ JustDeployed(r) ~> (testManifest = "absent")
    /\ [][\A r \in Runs :
             (tdpc[r] = "down" /\ tdpc'[r] # "down" /\ DownOk(tdDown'[r]))
                 => ~pageRunning']_vars

\* A removal script has torn the page down and deleted the manifest after
\* the run that launched it had exited.
C1_Witness ==
    \E r \in Runs :
        /\ pc[r] = "done"
        /\ tdpc[r] = "done"
        /\ tdDown[r] = "ok_removed"
        /\ ~pageRunning
        /\ testManifest = "absent"

\* C2: a run given an empty test domain writes no test manifest, no
\* environment file and no removal script, and launches no removal script.
C2_NoTestArtifacts ==
    \A r \in Runs :
        (InputTaken(r) /\ test_domain[r] = "")
            => /\ did[r] \cap {"docker-compose-test.yml", ".env", "script",
                               "teardown", "test_up"} = {}
               /\ scheduled[r] = 0
               /\ tdpc[r] = "none"

\* A run without a test domain has completed on a host where an earlier run
\* left its test manifest.
C2_Witness ==
    \E r \in Runs :
        /\ pc[r] = "done"
        /\ test_domain[r] = ""
        /\ "up" \in did[r]
        /\ testManifest # "absent"

\* C3 as stated: a run given a confirmed test domain has, when main returns,
\* scheduled exactly one removal script.
C3_Original ==
    \A r \in Runs :
        (pc[r] = "done" /\ test_domain[r] # "") => scheduled[r] = 1

\* C3 amended: a run given a confirmed test domain schedules exactly one
\* removal script when its `up -d` of the test page succeeds and none when
\* that start fails or the run ends before it; never more than one.
C3_Amended ==
    \A r \in Runs :
        /\ scheduled[r] <= 1
        /\ (pc[r] \in {"done", "crashed"} /\ test_domain[r] # "")
              => scheduled[r] = (IF tpUp[r] = "ok" THEN 1 ELSE 0)

\* A completed run with a confirmed test domain has launched its one
\* removal script.
C3_Witness ==
    \E r \in Runs :
        /\ pc[r] = "done"
        /\ test_domain[r] # ""
        /\ tpUp[r] = "ok"
        /\ scheduled[r] = 1
        /\ tdpc[r] # "none"

\* C4: when `up -d` of the test page fails, the run writes no removal script
\* and launches none.
C4_NoTeardownOnFailedStart ==
    \A r \in Runs :
        tpUp[r] = "fail"
            => /\ scheduled[r] = 0
               /\ tdpc[r] = "none"
               /\ did[r] \cap {"script", "teardown"} = {}

\* A run whose test page failed to start has completed.
C4_Witness ==
    \E r \in Runs :
        /\ pc[r] = "done"
        /\ tpUp[r] = "fail"
        /\ "test_up" \in did[r]

\* C5 as stated: once setup_docker_network has returned without a failed
\* create command, a network named traefik exists.
C5_Original ==
    \A r \in Runs :
        netCmd[r] \in {"skipped", "ok"} => Traefik \in networks

\* C6: a run whose environment checks fail exits nonzero without having
\* created a directory, written a file, created a network or deployed.
C6_AbortBeforeMutation ==
    \A r \in Runs :
        envCheck[r] = "failed"
            => /\ pc[r] = "env_abort"
               /\ exitCode[r] = 1
               /\ did[r] = {}
               /\ netCmd[r] = "none" /\ trUp[r] = "none" /\ tpUp[r] = "none"
               /\ scheduled[r] = 0

\* A run has been aborted by its environment checks on a host an earlier
\* run had set up.
C6_Witness ==
    \E r \in Runs :
        /\ pc[r] = "env_abort"
        /\ envCheck[r] = "failed"
        /\ \E q \in Runs : q < r /\ pc[q] = "done" /\ did[q] # {}

\* C7: when deploy_traefik's `up -d` fails and a test domain was given, the
\* run still attempts the test page before it ends.
C7_TestPageStillAttempted ==
    \A r \in Runs :
        (trUp[r] = "fail" /\ TestDomainGiven(test_domain[r]) /\ Finished(r))
            => /\ tpUp[r] # "none"
               /\ "test_up" \in did[r]
               /\ pc[r] = "done"

\* A run whose proxy failed to start has started the test page.
C7_Witness ==
    \E r \in Runs :
        /\ pc[r] = "done"
        /\ trUp[r] = "fail"
        /\ tpUp[r] = "ok"

\* C8: in one run with a manual teardown, the removal script that has
\* finished ended with exit status 0, its down call did not fail for a
\* missing manifest, it found nothing to remove where the manual teardown had
\* removed the page, and the manifest is deleted.
C8_ManualRaceHarmless ==
    \A r \in Runs :
        (tdpc[r] = "done" /\ manualCount > 0)
            => /\ tdExit[r] = 0
               /\ tdDown[r] \in {"ok_removed", "ok_noop", "fail_daemon"}
               /\ manualRemoved => tdDown[r] \in {"ok_noop", "fail_daemon"}
               /\ testManifest = "absent"
               /\ ~pageRunning \/ tdDown[r] = "fail_daemon"

\* The manual teardown removed the page first; the removal script's down was
\* a successful no-op and the manifest is deleted.
C8_Witness ==
    \E r \in Runs :
        /\ tdpc[r] = "done"
        /\ manualRemoved
        /\ tdDown[r] = "ok_noop"
        /\ tdExit[r] = 0
        /\ testManifest = "absent"

\* C9 as stated: a removal script whose down call failed leaves the test
\* manifest behind.
C9_Original ==
    \A r \in Runs :
        (tdpc[r] = "done" /\ ~DownOk(tdDown[r])) => testManifest # "absent"

\* C9 amended: a removal script whose down call failed does not retry it and
\* still deletes the test manifest; what a failed down leaves behind is the
\* running test page, unless the operator removed it.
C9_Amended ==
    \A r \in Runs :
        (tdpc[r] = "done" /\ ~DownOk(tdDown[r]))
            => /\ downCalls[r] = 1
               /\ testManifest = "absent"
               /\ pageRunning \/ manualRemoved

\* A removal script has finished after a failed down: the manifest is gone
\* and the page still runs.
C9_Witness ==
    \E r \in Runs :
        /\ tdpc[r] = "done"
        /\ tdDown[r] = "fail_daemon"
        /\ testManifest = "absent"
        /\ pageRunning

\* C10 as stated: at most one removal script is pending at any time, and no
\* removal script removes a page younger than 600 seconds.
C10_Original ==
    /\ Cardinality({r \in Runs : Pending(r)}) <= 1
    /\ autoAge = -1 \/ autoAge >= TTL

====
